---------------------------- MODULE Spec2Model ----------------------------
(***************************************************************************)
(* Model of sdk/program/src/sysvar/signatures.rs: the signatures sysvar.   *)
(*                                                                         *)
(* The runtime encodes the signatures of the running transaction into the  *)
(* account data of the signatures sysvar (construct_signatures_data /      *)
(* serialize_signatures); programs read one signature out of that account  *)
(* with load_signature_at_checked, which checks the account's key, borrows *)
(* its data and hands the bytes to deserialize_signature.                  *)
(*                                                                         *)
(* Bytes are naturals in 0..255, byte buffers (Vec<u8>, &[u8]) are         *)
(* sequences of bytes; Rust's 0-based data[i] is the sequence's data[i+1]. *)
(***************************************************************************)
EXTENDS Integers, Sequences, FiniteSets, TLC

VARIABLES
    signatures,       \* the transaction's signatures handed to the encoder
    populated,        \* TRUE once the runtime wrote the encoding into the account
    key,              \* AccountInfo.key of the account handed to the accessor
    data,             \* AccountInfo.data: the account's bytes
    borrow,           \* borrow flag of the RefCell around data: -1 exclusive, n >= 0 readers
    overflow_checks,  \* build profile: TRUE panics on integer overflow, FALSE wraps
    call              \* the last operation, its index argument and what it returned

vars == <<signatures, populated, key, data, borrow, overflow_checks, call>>

---------------------------------------------------------------------------
(* Bounds of the model *)

\* longest signature list enumerated exhaustively
MaxSigs == 2
\* signature lists of 255 .. 255 + MaxWrap entries exercise the u8 count byte
MaxWrap == 2
\* readers other than the accessor that may hold the data at once
MaxBorrows == 2
\* width of usize in bits (16 is the narrowest usize Rust supports)
UsizeBits == 16

---------------------------------------------------------------------------
(* Types of the program *)

\* type Signature = [u8;64]
SIGNATURE_LEN == 64

USIZE_MAX == 2^UsizeBits - 1

\* declare_sysvar_id!("SysvarSignatures111111111111111111111111111", Signatures)
ID == "SysvarSignatures111111111111111111111111111"

\* a key that is not the sysvar's (the instructions sysvar's)
OtherKey == "Sysvar1nstructions1111111111111111111111111"

Keys == {ID, OtherKey}

check_id(k) == k = ID

\* Result values: Ok(sig), Err(e), and a panic (the call does not return).
Ok(sig) == [kind |-> "Ok", sig |-> sig, err |-> "None"]
Err(e) == [kind |-> "Err", sig |-> <<>>, err |-> e]
Panic(msg) == [kind |-> "Panic", sig |-> <<>>, err |-> msg]
NoResult == [kind |-> "None", sig |-> <<>>, err |-> "None"]

\* usize arithmetic: a panic marker (-1) with overflow checks on, wrapping otherwise
Overflow == 0 - 1
usize_add(a, b, checks) ==
    IF a = Overflow \/ b = Overflow THEN Overflow
    ELSE IF a + b > USIZE_MAX
         THEN (IF checks THEN Overflow ELSE (a + b) % (USIZE_MAX + 1))
         ELSE a + b
usize_mul(a, b, checks) ==
    IF a = Overflow \/ b = Overflow THEN Overflow
    ELSE IF a * b > USIZE_MAX
         THEN (IF checks THEN Overflow ELSE (a * b) % (USIZE_MAX + 1))
         ELSE a * b

---------------------------------------------------------------------------
(* Encoder *)

\* serialize_utils::append_u8: vec.push(val)
append_u8(vec, val) == Append(vec, val)

\* serialize_utils::append_slice: vec.extend_from_slice(slice)
append_slice(vec, slice) == vec \o slice

\* a cast that saturates at u8::MAX instead of keeping the low 8 bits
as_u8_saturating(n) == IF n > 255 THEN 255 ELSE n

\* `signatures.len() as u8`: the cast keeps the low 8 bits
as_u8(n) == n % 256

\* for sig in signatures { append_slice(&mut data, sig); }: what the loop
\* appends for sigs[lo..hi], in order. The range is halved so that the depth
\* of the evaluation stays logarithmic in the number of signatures.
RECURSIVE serialize_loop(_, _, _)
serialize_loop(sigs, lo, hi) ==
    IF lo > hi THEN <<>>
    ELSE IF lo = hi THEN append_slice(<<>>, sigs[lo])
    ELSE LET mid == (lo + hi) \div 2
         IN append_slice(serialize_loop(sigs, lo, mid), serialize_loop(sigs, mid + 1, hi))

\* the encoder walking the signatures from the last to the first
serialize_signatures_reversed(sigs) ==
    append_slice(append_u8(<<>>, as_u8(Len(sigs))),
                 serialize_loop([k \in 1..Len(sigs) |-> sigs[Len(sigs) + 1 - k]], 1, Len(sigs)))

\* the encoder writing the count after the signatures instead of before them
serialize_signatures_count_last(sigs) ==
    append_u8(append_slice(<<>>, serialize_loop(sigs, 1, Len(sigs))), as_u8(Len(sigs)))

serialize_signatures(sigs) ==
    append_slice(append_u8(<<>>, as_u8(Len(sigs))), serialize_loop(sigs, 1, Len(sigs)))

construct_signatures_data(sigs) == serialize_signatures(sigs)

---------------------------------------------------------------------------
(* Decoder *)

\* &data[start..end] followed by copy_from_slice into a [u8; 64]: the slice
\* panics when start > end or end > data.len(), the copy when the lengths differ
copy_from_slice(buf, start, end) ==
    IF start > end THEN Panic("slice index starts past its end")
    ELSE IF end > Len(buf) THEN Panic("range end index out of range for slice")
    ELSE IF end - start # SIGNATURE_LEN THEN Panic("source slice length does not match destination")
    ELSE Ok(SubSeq(buf, start + 1, end))

\* the decoder without the `index >= num_signatures` check
deserialize_signature_no_count_check(index, buf, checks) ==
    IF Len(buf) = 0 THEN Err("IndexOutOfBounds")
    ELSE LET start == usize_add(1, usize_mul(index, 64, checks), checks)
             end == usize_add(start, 64, checks)
         IN IF start = Overflow \/ end = Overflow
            THEN Panic("arithmetic overflow")
            ELSE IF end > Len(buf) THEN Err("IndexOutOfBounds")
            ELSE copy_from_slice(buf, start, end)

deserialize_signature(index, buf, checks) ==
    IF Len(buf) = 0 THEN Err("IndexOutOfBounds")
    ELSE LET num_signatures == buf[1] IN
         IF index >= num_signatures THEN Err("IndexOutOfBounds")
         ELSE LET start == usize_add(1, usize_mul(index, 64, checks), checks)
                  end == usize_add(start, 64, checks)
              IN IF start = Overflow \/ end = Overflow
                 THEN Panic("arithmetic overflow")
                 ELSE IF end > Len(buf) THEN Err("IndexOutOfBounds")
                 ELSE copy_from_slice(buf, start, end)

---------------------------------------------------------------------------
(* Checked accessor *)

\* AccountInfo::try_borrow_data: RefCell::try_borrow, an exclusive holder
\* makes it fail with ProgramError::AccountBorrowFailed
try_borrow_data(flag) ==
    IF flag < 0 THEN [ok |-> FALSE, flag |-> flag, err |-> "AccountBorrowFailed"]
    ELSE [ok |-> TRUE, flag |-> flag + 1, err |-> "None"]

\* dropping the Ref<[u8]> at the end of its scope
drop_ref(flag) == flag - 1

\* .map_err(|err| match err { IndexOutOfBounds => InvalidArgument, _ => InvalidInstructionData })
map_err(r) ==
    IF r.kind # "Err" THEN r
    ELSE IF r.err = "IndexOutOfBounds" THEN Err("InvalidArgument")
    ELSE Err("InvalidInstructionData")

\* the accessor borrowing the data before it checks the key
load_signature_at_checked_borrow_first(index, k, buf, flag, checks) ==
    LET signature_sysvar == try_borrow_data(flag) IN
    IF ~signature_sysvar.ok
    THEN [result |-> Err(signature_sysvar.err), flag |-> signature_sysvar.flag]
    ELSE IF ~check_id(k)
         THEN [result |-> Err("UnsupportedSysvar"), flag |-> drop_ref(signature_sysvar.flag)]
         ELSE [result |-> map_err(deserialize_signature(index, buf, checks)),
               flag |-> drop_ref(signature_sysvar.flag)]

\* the accessor taking the exclusive borrow (try_borrow_mut_data), which
\* any other reader makes fail
load_signature_at_checked_borrow_mut(index, k, buf, flag, checks) ==
    IF ~check_id(k) THEN [result |-> Err("UnsupportedSysvar"), flag |-> flag]
    ELSE IF flag # 0 THEN [result |-> Err("AccountBorrowFailed"), flag |-> flag]
    ELSE [result |-> map_err(deserialize_signature(index, buf, checks)), flag |-> flag]

\* the accessor keeping its Ref alive when the decoder fails
load_signature_at_checked_leak(index, k, buf, flag, checks) ==
    IF ~check_id(k) THEN [result |-> Err("UnsupportedSysvar"), flag |-> flag]
    ELSE LET signature_sysvar == try_borrow_data(flag) IN
         IF ~signature_sysvar.ok
         THEN [result |-> Err(signature_sysvar.err), flag |-> signature_sysvar.flag]
         ELSE LET r == map_err(deserialize_signature(index, buf, checks)) IN
              [result |-> r,
               flag |-> IF r.kind = "Ok" THEN drop_ref(signature_sysvar.flag)
                        ELSE signature_sysvar.flag]

\* the result together with the borrow flag the call leaves behind
load_signature_at_checked(index, k, buf, flag, checks) ==
    IF ~check_id(k) THEN [result |-> Err("UnsupportedSysvar"), flag |-> flag]
    ELSE LET signature_sysvar == try_borrow_data(flag) IN
         IF ~signature_sysvar.ok
         THEN [result |-> Err(signature_sysvar.err), flag |-> signature_sysvar.flag]
         ELSE [result |-> map_err(deserialize_signature(index, buf, checks)),
               flag |-> drop_ref(signature_sysvar.flag)]

---------------------------------------------------------------------------
(* Inputs *)

Fill(b) == [j \in 1..SIGNATURE_LEN |-> b]
Ramp == [j \in 1..SIGNATURE_LEN |-> 191 + j]

\* signature values: the tests' [1;64]-style fills and one with distinct bytes
SigValues == {Fill(1), Ramp}

SigSeqs == UNION {[1..n -> SigValues] : n \in 0..MaxSigs}

\* lists around the 255 limit of the count byte
LongSig(k) == IF k % 3 = 0 THEN Ramp ELSE Fill(k % 256)
LongSigSeqs == {[k \in 1..n |-> LongSig(k)] : n \in 255..(255 + MaxWrap)}

SigInputs == SigSeqs \cup LongSigSeqs

\* indices handed to the decoder and the accessor
Indices == (0..(MaxSigs + 1)) \cup {254, 255, 256, USIZE_MAX \div 64, USIZE_MAX}

\* account data as a program may find it: any count byte, any number of
\* whole signatures after it, possibly cut short
CountBytes == (0..(MaxSigs + 1)) \cup {255}
Cuts == {0, 1, SIGNATURE_LEN - 1, SIGNATURE_LEN}
Truncate(buf, n) == IF n >= Len(buf) THEN <<>> ELSE SubSeq(buf, 1, Len(buf) - n)
Flatten(sigs) == serialize_loop(sigs, 1, Len(sigs))
Buffers ==
    {Truncate(<<c>> \o Flatten(body), cut) : c \in CountBytes, body \in SigSeqs, cut \in Cuts}

---------------------------------------------------------------------------
(* State machine *)

Init ==
    /\ signatures = <<>>
    /\ populated = FALSE
    /\ key \in Keys
    /\ data \in Buffers
    /\ borrow = 0
    /\ overflow_checks \in BOOLEAN
    /\ call = [op |-> "init", index |-> 0, result |-> NoResult]

\* the runtime encodes the transaction's signatures into the sysvar account
\* before any program runs
ConstructSignaturesData(sigs) ==
    /\ call.op = "init"
    /\ signatures' = sigs
    /\ data' = construct_signatures_data(sigs)
    /\ populated' = TRUE
    /\ call' = [op |-> "construct_signatures_data", index |-> 0, result |-> NoResult]
    /\ UNCHANGED <<key, borrow, overflow_checks>>

DeserializeSignature(index) ==
    /\ call' = [op |-> "deserialize_signature", index |-> index,
                result |-> deserialize_signature(index, data, overflow_checks)]
    /\ UNCHANGED <<signatures, populated, key, data, borrow, overflow_checks>>

LoadSignatureAtChecked(index) ==
    LET r == load_signature_at_checked(index, key, data, borrow, overflow_checks) IN
    /\ call' = [op |-> "load_signature_at_checked", index |-> index, result |-> r.result]
    /\ borrow' = r.flag
    /\ UNCHANGED <<signatures, populated, key, data, overflow_checks>>

\* the program holding the AccountInfo borrows its data itself
BorrowData ==
    /\ borrow >= 0
    /\ borrow < MaxBorrows
    /\ borrow' = try_borrow_data(borrow).flag
    /\ call' = [op |-> "try_borrow_data", index |-> 0, result |-> NoResult]
    /\ UNCHANGED <<signatures, populated, key, data, overflow_checks>>

DropRef ==
    /\ borrow > 0
    /\ borrow' = drop_ref(borrow)
    /\ call' = [op |-> "drop_ref", index |-> 0, result |-> NoResult]
    /\ UNCHANGED <<signatures, populated, key, data, overflow_checks>>

BorrowMutData ==
    /\ borrow = 0
    /\ borrow' = 0 - 1
    /\ call' = [op |-> "try_borrow_mut_data", index |-> 0, result |-> NoResult]
    /\ UNCHANGED <<signatures, populated, key, data, overflow_checks>>

DropRefMut ==
    /\ borrow < 0
    /\ borrow' = 0
    /\ call' = [op |-> "drop_ref_mut", index |-> 0, result |-> NoResult]
    /\ UNCHANGED <<signatures, populated, key, data, overflow_checks>>

Next ==
    \/ \E sigs \in SigInputs : ConstructSignaturesData(sigs)
    \/ \E index \in Indices : DeserializeSignature(index)
    \/ \E index \in Indices : LoadSignatureAtChecked(index)
    \/ BorrowData
    \/ DropRef
    \/ BorrowMutData
    \/ DropRefMut

Spec == Init /\ [][Next]_vars

---------------------------------------------------------------------------
(* Properties *)

IsDeserialize == call.op = "deserialize_signature"
IsLoad == call.op = "load_signature_at_checked"

\* the layout of the format, stated on the bytes: slot i of a buffer is
\* bytes [1 + 64*i, 1 + 64*i + 64), and it is there when the count byte
\* covers i and the buffer is long enough
Slot(buf, i) == [j \in 1..64 |-> buf[1 + 64 * i + j]]
InBounds(buf, i) == Len(buf) > 0 /\ i < buf[1] /\ 1 + 64 * i + 64 <= Len(buf)

PublicErrors == {"UnsupportedSysvar", "InvalidArgument", "InvalidInstructionData"}

\* C1: round trip. For every list of at most 255 signatures and every index
\* below its length, decoding that index from the encoder's output succeeds
\* and returns the signature at that index of the input.
RoundTrip ==
    (populated /\ IsDeserialize /\ Len(signatures) <= 255 /\ call.index < Len(signatures))
        => call.result = Ok(signatures[call.index + 1])

RoundTripWitness ==
    /\ populated /\ IsDeserialize
    /\ Len(signatures) = 255 /\ call.index = 254
    /\ call.result.kind = "Ok"
    /\ signatures[255] # signatures[1]

\* C2: on an account with the sysvar's key whose data is not exclusively
\* borrowed, with index < data[0] and 1 + 64*index + 64 <= len(data), the
\* accessor returns Ok with exactly the bytes data[1 + 64*index .. + 64].
LoadReturnsSlot ==
    (IsLoad /\ key = ID /\ borrow >= 0 /\ InBounds(data, call.index))
        => call.result = Ok(Slot(data, call.index))

LoadReturnsSlotWitness ==
    /\ IsLoad /\ key = ID /\ borrow > 0 /\ ~populated
    /\ call.index = 1 /\ InBounds(data, 1)
    /\ call.result.kind = "Ok"
    /\ call.result.sig # Slot(data, 0)

\* C3: upper bound. On a non-empty buffer and an index >= the count in its
\* first byte, the decoder fails with IndexOutOfBounds and the accessor
\* (called with the sysvar's key) fails with InvalidArgument.
UpperBound ==
    (Len(data) > 0 /\ call.index >= data[1])
        => /\ IsDeserialize => call.result = Err("IndexOutOfBounds")
           /\ (IsLoad /\ key = ID) => call.result = Err("InvalidArgument")

\* C4: identity gate. Called with a key that is not the sysvar's, the
\* accessor fails with UnsupportedSysvar whatever the data, the index and the
\* borrow state are.
IdentityGate ==
    (IsLoad /\ key # ID) => call.result = Err("UnsupportedSysvar")

IdentityGateWitness ==
    /\ IsLoad /\ key # ID
    /\ borrow < 0 /\ Len(data) = 0
    /\ call.result.kind = "Err"

\* C5: closed error surface. Whatever the key, the data, the borrow state
\* and the index, the accessor returns a signature or one of
\* UnsupportedSysvar, InvalidArgument, InvalidInstructionData.
ClosedErrorSurface ==
    IsLoad => \/ call.result.kind = "Ok" /\ Len(call.result.sig) = SIGNATURE_LEN
              \/ call.result.kind = "Err" /\ call.result.err \in PublicErrors

\* C6: truncated buffer. When index < count but the slot would end past the
\* end of the buffer, the decoder fails with IndexOutOfBounds and the
\* accessor (called with the sysvar's key) with InvalidArgument.
TruncatedBuffer ==
    (Len(data) > 0 /\ call.index < data[1] /\ 1 + 64 * call.index + 64 > Len(data))
        => /\ IsDeserialize => call.result = Err("IndexOutOfBounds")
           /\ (IsLoad /\ key = ID) => call.result = Err("InvalidArgument")

\* C7: encoder layout. For n <= 255 signatures the encoding has length
\* 1 + 64*n, byte 0 is n, bytes [1 + 64*i, 1 + 64*i + 64) are signature i
\* for every i < n, and the empty list encodes to the single byte 0.
EncoderLayout ==
    (call.op = "construct_signatures_data" /\ Len(signatures) <= 255)
        => /\ Len(data) = 1 + 64 * Len(signatures)
           /\ data[1] = Len(signatures)
           /\ \A i \in 0..(Len(signatures) - 1) :
                  \A j \in 1..64 : data[1 + 64 * i + j] = signatures[i + 1][j]
           /\ signatures = <<>> => data = <<0>>

EncoderLayoutWitness ==
    /\ call.op = "construct_signatures_data"
    /\ Len(signatures) = 255
    /\ Len(data) = 16321
    /\ signatures[255] # signatures[1]

\* C8: the decoder never panics and decodes all or nothing. On every buffer
\* and index it returns Ok with 64 bytes or Err(IndexOutOfBounds); Ok exactly
\* when the buffer is non-empty, index < buffer[0] and 1 + 64*index + 64 <=
\* len(buffer); and where it computes 1 + 64*index + 64 the value fits usize.
NoPanicAllOrNothing ==
    IsDeserialize =>
        /\ call.result.kind \in {"Ok", "Err"}
        /\ InBounds(data, call.index)
               => call.result = Ok(Slot(data, call.index)) /\ Len(call.result.sig) = 64
        /\ ~InBounds(data, call.index) => call.result = Err("IndexOutOfBounds")
        /\ (call.result.kind = "Ok") <=> InBounds(data, call.index)
        /\ (Len(data) > 0 /\ call.index < data[1]) => 1 + 64 * call.index + 64 <= USIZE_MAX

NoPanicAllOrNothingWitness ==
    /\ IsDeserialize
    /\ call.index = USIZE_MAX
    /\ Len(data) > 1 /\ data[1] = 255
    /\ overflow_checks
    /\ call.result = Err("IndexOutOfBounds")

\* C9: a call of the accessor, whatever it returns, leaves the account's key
\* and data as they were and the borrow flag of the data where it was: no
\* borrow of the call outlives it.
BorrowReleased ==
    [][call'.op = "load_signature_at_checked"
          => (key' = key /\ data' = data /\ borrow' = borrow)]_vars

BorrowReleasedWitness ==
    /\ IsLoad /\ key = ID
    /\ borrow = MaxBorrows
    /\ call.result = Err("InvalidArgument")

\* C10: count wrap. For n > 255 signatures the encoder writes the count byte
\* n mod 256 and still appends all n signatures (length 1 + 64*n); decoding
\* index i succeeds for i < n mod 256 and fails with IndexOutOfBounds for
\* n mod 256 <= i < n.
CountWrap ==
    (populated /\ Len(signatures) > 255)
        => /\ Len(data) = 1 + 64 * Len(signatures)
           /\ data[1] = Len(signatures) % 256
           /\ (IsDeserialize /\ call.index < Len(signatures) % 256)
                  => call.result = Ok(signatures[call.index + 1])
           /\ (IsDeserialize /\ call.index >= Len(signatures) % 256
                             /\ call.index < Len(signatures))
                  => call.result = Err("IndexOutOfBounds")

CountWrapWitness ==
    /\ populated /\ IsDeserialize
    /\ Len(signatures) = 257
    /\ call.index = 1
    /\ Slot(data, 1) = signatures[2]
    /\ call.result = Err("IndexOutOfBounds")

=============================================================================
